---- MODULE Spec2Model ----
(***************************************************************************)
(* Model of app.py, the Streamlit script that draws the "Single Site Plan" *)
(* A3 page: the sidebar inputs, the "Generate A3 PDF" handler with its     *)
(* scale-fit block, and make_keyplan_image with its tile loop.             *)
(*                                                                         *)
(* Numbers.  The script computes in IEEE doubles.  Lengths are modelled as *)
(* exact rationals [n, d] in lowest terms, so every relation below is the  *)
(* relation of the real-number arithmetic the script approximates; the     *)
(* last-place rounding of a double is not part of the model.               *)
(***************************************************************************)
EXTENDS Integers, Sequences, FiniteSets, TLC

----------------------------------------------------------------------------
(* Exact rational arithmetic *)

Abs(a) == IF a < 0 THEN -a ELSE a

RECURSIVE GCD(_, _)
GCD(a, b) == IF b = 0 THEN Abs(a) ELSE GCD(b, a % Abs(b))

\* n/d in lowest terms with a positive denominator
Rat(n, d) ==
    LET s == IF d < 0 THEN -1 ELSE 1
        g == GCD(n, d)
    IN  [n |-> (s * n) \div g, d |-> (s * d) \div g]

RInt(k) == [n |-> k, d |-> 1]

RLcm(a, b) == (a.d \div GCD(a.d, b.d)) * b.d

RAdd(a, b) ==
    LET l == RLcm(a, b)
    IN  Rat(a.n * (l \div a.d) + b.n * (l \div b.d), l)

RSub(a, b) ==
    LET l == RLcm(a, b)
    IN  Rat(a.n * (l \div a.d) - b.n * (l \div b.d), l)

RMul(a, b) ==
    LET g1 == GCD(a.n, b.d)
        g2 == GCD(b.n, a.d)
    IN  Rat((a.n \div g1) * (b.n \div g2), (a.d \div g2) * (b.d \div g1))

\* a / b, b # 0
RDiv(a, b) == RMul(a, Rat(b.d, b.n))

RLeq(a, b) ==
    LET l == RLcm(a, b)
    IN  a.n * (l \div a.d) <= b.n * (l \div b.d)

RLt(a, b) == ~RLeq(b, a)

\* Python's min(a, b)
RMin(a, b) == IF RLeq(a, b) THEN a ELSE b

----------------------------------------------------------------------------
(* Bounds of the model *)

\* largest site length / width the model enters, in tenths of a metre
MaxSiteTenths == 250

\* largest key-plan buffer radius the model enters, in metres
MaxBufferM == 260

----------------------------------------------------------------------------
(* Page layout constants (mm) *)

PAGE_W_MM == RInt(420)
PAGE_H_MM == RInt(297)
LEFT_MARGIN == RInt(12)
TOP_MARGIN == RInt(12)
BOTTOM_MARGIN == RInt(12)

\* PAGE_W_MM * 0.62
DRAWING_AREA_W == RMul(PAGE_W_MM, Rat(62, 100))
\* PAGE_H_MM - TOP_MARGIN - BOTTOM_MARGIN - 36
DRAWING_AREA_H == RSub(RSub(RSub(PAGE_H_MM, TOP_MARGIN), BOTTOM_MARGIN), RInt(36))
DRAWING_ORIGIN_X == RAdd(LEFT_MARGIN, RInt(2))
DRAWING_ORIGIN_Y == RAdd(BOTTOM_MARGIN, RInt(36))

\* the nominal drawing scale 1:SCALE and the padding inside the drawing area
SCALE == 100
inner_pad == RInt(8)

\* mm of paper per metre of site at the nominal scale
mm_per_m == Rat(1000, SCALE)

usable_w == RSub(DRAWING_AREA_W, RMul(RInt(2), inner_pad))
usable_h == RSub(DRAWING_AREA_H, RMul(RInt(2), inner_pad))

----------------------------------------------------------------------------
(* Sidebar inputs *)

\* number_input(min_value=0.1, step=0.1): the smallest value and the step, in
\* tenths of a metre
MinSiteTenths == 1
SiteStepTenths == 1

\* number_input defaults value=15.0 (length) and value=12.0 (width)
DefaultLength == Rat(150, 10)
DefaultWidth == Rat(120, 10)

\* the values the two site number_inputs can hold in the model
SiteValues == {Rat(k, 10) : k \in MinSiteTenths..MaxSiteTenths}

\* number_input("Key plan buffer radius (m)", min_value=50, value=200, step=10)
MinBufferM == 50
DefaultBufferM == 200

\* the values typed into the buffer radius number_input in the model
BufferValues == {MinBufferM, 90, DefaultBufferM, MaxBufferM}

\* slider("Map zoom (10-18)", min_value=10, max_value=18, value=14)
MinZoom == 10
MaxZoom == 18
DefaultZoom == 14

\* picked_latlon = None
None == <<>>

----------------------------------------------------------------------------
(* State *)

VARIABLES
    site_length_m,  \* sidebar: site length, metres
    site_width_m,   \* sidebar: site width, metres
    kp_radius_m,    \* sidebar: key plan buffer radius, metres
    kp_zoom,        \* sidebar: map zoom
    picked_latlon,  \* None or <<lat, lon>> in degrees
    pc,             \* where the script run stands: idle, fetch, done
    mm_per_m_use,   \* scale the site is drawn at, mm per metre
    site_w_mm,      \* placed site rectangle
    site_h_mm,
    site_x,
    site_y,
    title_scale,    \* N of the title block text "SCALE : 1:N"; 0 before drawn
    x_center,       \* make_keyplan_image: centre tile address
    y_center,
    dx,             \* make_keyplan_image: position of the tile loop
    dy,
    grid,           \* make_keyplan_image: rows of tile images collected
    requests,       \* tile addresses <<z, x, y>> requested, in order
    fetched,        \* per request, whether fetch_tile_image returned an image
    stitched,       \* pastes made into the mosaic, in order
    stitched_size,  \* pixel size of the mosaic
    center_px,      \* pixel of the picked point in the mosaic
    radius_px,      \* buffer circle radius, pixels
    row,            \* make_keyplan_image: the row being collected
    key_status      \* none, preview, or "no preview" (exception caught)

inputVars == <<site_length_m, site_width_m, kp_radius_m, kp_zoom, picked_latlon>>
fitVars == <<mm_per_m_use, site_w_mm, site_h_mm, site_x, site_y, title_scale>>
keyVars == <<x_center, y_center, dx, dy, grid, row, requests, fetched, stitched,
             stitched_size, center_px, radius_px, key_status>>
vars == <<inputVars, pc, fitVars, keyVars>>

----------------------------------------------------------------------------
(* Scale-fit block of the "Generate A3 PDF" handler *)

req_w_mm(w) == RMul(w, mm_per_m)
req_h_mm(l) == RMul(l, mm_per_m)

\* faulty variant of FitsNominal: "or" in place of "and"
FitsNominalEitherAxis(w, l) ==
    RLeq(req_w_mm(w), usable_w) \/ RLeq(req_h_mm(l), usable_h)

\* if req_w_mm <= usable_w and req_h_mm <= usable_h
FitsNominal(w, l) ==
    RLeq(req_w_mm(w), usable_w) /\ RLeq(req_h_mm(l), usable_h)

\* faulty variant of FallbackScale: max in place of min
FallbackScaleLoosest(w, l) ==
    LET a == RDiv(usable_w, w)
        b == RDiv(usable_h, l)
    IN  IF RLeq(a, b) THEN b ELSE a

\* min(usable_w / site_width_m, usable_h / site_length_m)
FallbackScale(w, l) == RMin(RDiv(usable_w, w), RDiv(usable_h, l))

MmPerMUse(w, l) ==
    IF FitsNominal(w, l) THEN mm_per_m ELSE FallbackScale(w, l)

\* site_w_mm = site_width_m * mm_per_m_use
SiteWmm(w, s) == RMul(w, s)

\* faulty variant of SiteHmm: the fallback fills the usable height
SiteHmmStretched(l, s) == IF s = mm_per_m THEN RMul(l, s) ELSE usable_h

\* site_h_mm = site_length_m * mm_per_m_use
SiteHmm(l, s) == RMul(l, s)

\* faulty variant of SiteX: the halving of the free width is missing
SiteXFlushRight(wmm) ==
    RAdd(RAdd(DRAWING_ORIGIN_X, inner_pad), RSub(usable_w, wmm))

\* site_x = DRAWING_ORIGIN_X + inner_pad + (usable_w - site_w_mm) / 2
SiteX(wmm) ==
    RAdd(RAdd(DRAWING_ORIGIN_X, inner_pad), RDiv(RSub(usable_w, wmm), RInt(2)))

\* site_y = DRAWING_ORIGIN_Y + inner_pad + (usable_h - site_h_mm) / 2
SiteY(hmm) ==
    RAdd(RAdd(DRAWING_ORIGIN_Y, inner_pad), RDiv(RSub(usable_h, hmm), RInt(2)))

\* f"SCALE : 1:{int(SCALE)}"
TitleScale == SCALE

----------------------------------------------------------------------------
(* Static OSM helper functions *)

\* math.log(math.tan(lat_rad) + 1 / math.cos(lat_rad)) has a value: the
\* argument is positive for -90 < lat < 90; in doubles radians(90.0) is just
\* below pi/2, so tan and 1/cos are both 1.6e16 and the argument is positive
\* at 90.0 too; at -90.0 the two cancel to 0.0, and beyond the poles the
\* argument is negative: math.log raises ValueError.
MercatorDefined(lat) == -90 < lat /\ lat <= 90

\* binary places of the tabulated projection
MercBits == 26

\* floor(2^26 * (1 - ln(tan(lat_rad) + 1/cos(lat_rad)) / pi) / 2), the y of
\* latlon_to_tile_xy at zoom 0, from the doubles the source computes
MercY(lat) ==
    CASE lat = 0  -> 33554432
      [] lat = 13 -> 31109991
      [] lat = 89 -> -17086527
      [] lat = 90 -> -372579505

\* xtile, ytile of latlon_to_tile_xy: fractional tile coordinates
latlon_to_tile_xy(lat, lon, zoom) ==
    [xtile |-> Rat((lon + 180) * (2 ^ zoom), 360),
     ytile |-> Rat(MercY(lat), 2 ^ (MercBits - zoom))]

\* math.floor
Floor(r) == r.n \div r.d

\* Python's int(): truncation toward zero
PyInt(r) == IF r.n >= 0 THEN r.n \div r.d ELSE -((-r.n) \div r.d)

\* Python's round() to the nearest integer, halves to even
PyRound(r) ==
    LET f == Floor(r)
        twice == RSub(RMul(RInt(2), r), RInt(2 * f))
    IN  IF RLt(twice, RInt(1)) THEN f
        ELSE IF RLt(RInt(1), twice) THEN f + 1
        ELSE IF f % 2 = 0 THEN f ELSE f + 1

Max(a, b) == IF a >= b THEN a ELSE b

\* size = 256 in make_keyplan_image; tiles_radius=1 at the call
size == 256
tiles_radius == 1
cols == 2 * tiles_radius + 1

\* (cos(radians(lat)) * 2 * pi * R) / (256 * 2**10), R = 6378137.0, in
\* millimetres per pixel rounded to a whole millimetre.  cos(radians(90.0)) is
\* 6.1e-17 in doubles, positive: the table holds the smallest positive value.
Mpp10mm(lat) ==
    CASE lat = 0  -> 152874
      [] lat = 13 -> 148956
      [] lat = 89 -> 2668
      [] lat = 90 -> 1

\* mpp = (cos(radians(lat)) * 2 * pi * R) / (256 * (2**zoom)), metres per pixel
mpp(lat, zoom) == Rat(Mpp10mm(lat), 1000 * (2 ^ (zoom - MinZoom)))

\* faulty variant of RadiusPx: round() in place of int()
RadiusPxRounded(buffer_m, lat, zoom) ==
    Max(2, PyRound(RDiv(RInt(buffer_m), mpp(lat, zoom))))

\* radius_px = max(2, int(buffer_m / mpp))
RadiusPx(buffer_m, lat, zoom) ==
    Max(2, PyInt(RDiv(RInt(buffer_m), mpp(lat, zoom))))

\* center_px = (tiles_radius*size + int(frac_x*size), tiles_radius*size + int(frac_y*size))
CenterPx(t, xc, yc) ==
    <<tiles_radius * size + PyInt(RMul(RSub(t.xtile, RInt(xc)), RInt(size))),
      tiles_radius * size + PyInt(RMul(RSub(t.ytile, RInt(yc)), RInt(size)))>>

\* fetch_tile_image: the image of tile z/x/y, or None when the request fails
TileImage(addr) == [kind |-> "tile", addr |-> addr]

\* Image.new("RGBA", (size, size), (240, 240, 240, 255))
Placeholder == [kind |-> "placeholder", addr |-> <<>>]

\* faulty variant of CellImage: a failed fetch is not replaced
CellImageUnreplaced(ok, addr) ==
    IF ok THEN TileImage(addr) ELSE [kind |-> "none", addr |-> <<>>]

\* img = fetch_tile_image(...); if img is None: img = Image.new(...)
CellImage(ok, addr) == IF ok THEN TileImage(addr) ELSE Placeholder

\* faulty variant of PastePos: row and column exchanged
PastePosTransposed(r, c) == <<r * size, c * size>>

\* stitched.paste(grid[r][c], (c * size, r * size))
PastePos(r, c) == <<c * size, r * size>>

----------------------------------------------------------------------------
(* The script *)

\* locations <<lat, lon>> (degrees) the map click or the "lat,lon" text gives
PickSamples ==
    {<<13, 78>>, <<0, -180>>, <<0, 180>>, <<89, 0>>, <<90, 78>>, <<-90, 0>>,
     <<91, 0>>}

NoRat == RInt(0)

Undrawn ==
    /\ mm_per_m_use = NoRat
    /\ site_w_mm = NoRat
    /\ site_h_mm = NoRat
    /\ site_x = NoRat
    /\ site_y = NoRat
    /\ title_scale = 0
    /\ x_center = 0
    /\ y_center = 0
    /\ dx = 0
    /\ dy = 0
    /\ grid = <<>>
    /\ row = <<>>
    /\ requests = <<>>
    /\ fetched = <<>>
    /\ stitched = <<>>
    /\ stitched_size = <<0, 0>>
    /\ center_px = <<0, 0>>
    /\ radius_px = 0
    /\ key_status = "none"

Init ==
    /\ site_length_m = DefaultLength
    /\ site_width_m = DefaultWidth
    /\ kp_radius_m = DefaultBufferM
    /\ kp_zoom = DefaultZoom
    /\ picked_latlon = None
    /\ pc = "idle"
    /\ Undrawn

\* the +/- buttons of the site length and width number_inputs
StepLength(up) ==
    LET v == RAdd(site_length_m, Rat(IF up THEN SiteStepTenths ELSE -SiteStepTenths, 10))
    IN  /\ pc = "idle"
        /\ v \in SiteValues
        /\ site_length_m' = v
        /\ UNCHANGED <<site_width_m, kp_radius_m, kp_zoom, picked_latlon, pc, fitVars, keyVars>>

StepWidth(up) ==
    LET v == RAdd(site_width_m, Rat(IF up THEN SiteStepTenths ELSE -SiteStepTenths, 10))
    IN  /\ pc = "idle"
        /\ v \in SiteValues
        /\ site_width_m' = v
        /\ UNCHANGED <<site_length_m, kp_radius_m, kp_zoom, picked_latlon, pc, fitVars, keyVars>>

\* a value typed into the key plan buffer radius number_input
SetRadius(v) ==
    /\ pc = "idle"
    /\ v \in BufferValues
    /\ v >= MinBufferM
    /\ v # kp_radius_m
    /\ kp_radius_m' = v
    /\ UNCHANGED <<site_length_m, site_width_m, kp_zoom, picked_latlon, pc, fitVars, keyVars>>

\* the map zoom slider
SetZoom(z) ==
    /\ pc = "idle"
    /\ z \in MinZoom..MaxZoom
    /\ z # kp_zoom
    /\ kp_zoom' = z
    /\ UNCHANGED <<site_length_m, site_width_m, kp_radius_m, picked_latlon, pc, fitVars, keyVars>>

\* a click on the map, or geocode() of the address text
PickLocation(p) ==
    /\ pc = "idle"
    /\ p \in PickSamples
    /\ p # picked_latlon
    /\ picked_latlon' = p
    /\ UNCHANGED <<site_length_m, site_width_m, kp_radius_m, kp_zoom, pc, fitVars, keyVars>>

\* if st.button("Generate A3 PDF"): the scale-fit block, the title block, and
\* make_keyplan_image up to its first tile request
Generate ==
    /\ pc = "idle"
    /\ mm_per_m_use' = MmPerMUse(site_width_m, site_length_m)
    /\ site_w_mm' = SiteWmm(site_width_m, mm_per_m_use')
    /\ site_h_mm' = SiteHmm(site_length_m, mm_per_m_use')
    /\ site_x' = SiteX(site_w_mm')
    /\ site_y' = SiteY(site_h_mm')
    /\ title_scale' = TitleScale
    /\ IF picked_latlon = None
       THEN \* if picked_latlon: is false, no key plan is rendered
            /\ pc' = "done"
            /\ UNCHANGED keyVars
       ELSE IF ~MercatorDefined(picked_latlon[1])
       THEN \* latlon_to_tile_xy raises; except Exception: "Key plan (no preview)"
            /\ pc' = "done"
            /\ key_status' = "no preview"
            /\ UNCHANGED <<x_center, y_center, dx, dy, grid, row, requests, fetched,
                           stitched, stitched_size, center_px, radius_px>>
       ELSE LET t == latlon_to_tile_xy(picked_latlon[1], picked_latlon[2], kp_zoom)
            IN  /\ x_center' = Floor(t.xtile)
                /\ y_center' = Floor(t.ytile)
                /\ dy' = -tiles_radius
                /\ dx' = -tiles_radius
                /\ pc' = "fetch"
                /\ UNCHANGED <<grid, row, requests, fetched, stitched, stitched_size,
                               center_px, radius_px, key_status>>
    /\ UNCHANGED inputVars

\* one pass of the inner loop of make_keyplan_image: fetch_tile_image returns
\* an image (ok) or None
FetchTile(ok) ==
    LET addr == <<kp_zoom, x_center + dx, y_center + dy>>
        img == CellImage(ok, addr)
    IN  /\ pc = "fetch"
        /\ requests' = Append(requests, addr)
        /\ fetched' = Append(fetched, ok)
        /\ IF dx < tiles_radius
           THEN /\ row' = Append(row, img)
                /\ dx' = dx + 1
                /\ UNCHANGED <<grid, dy, pc>>
           ELSE /\ grid' = Append(grid, Append(row, img))
                /\ row' = <<>>
                /\ dx' = -tiles_radius
                /\ dy' = dy + 1
                /\ pc' = IF dy < tiles_radius THEN "fetch" ELSE "stitch"
        /\ UNCHANGED <<inputVars, fitVars, x_center, y_center, stitched, stitched_size,
                       center_px, radius_px, key_status>>

\* the rest of make_keyplan_image: the paste loop, the centre pixel and the
\* buffer circle; the caller then shows the image
Stitch ==
    LET t == latlon_to_tile_xy(picked_latlon[1], picked_latlon[2], kp_zoom)
    IN  /\ pc = "stitch"
        /\ stitched_size' = <<cols * size, cols * size>>
        /\ stitched' = [i \in 1..(cols * cols) |->
                          LET r == (i - 1) \div cols
                              c == (i - 1) % cols
                          IN  [pos |-> PastePos(r, c), img |-> grid[r + 1][c + 1]]]
        /\ center_px' = CenterPx(t, x_center, y_center)
        /\ radius_px' = RadiusPx(kp_radius_m, picked_latlon[1], kp_zoom)
        /\ key_status' = "preview"
        /\ pc' = "done"
        /\ UNCHANGED <<inputVars, fitVars, x_center, y_center, dx, dy, grid, row,
                       requests, fetched>>

\* the next interaction reruns the script from the top: the button is no
\* longer pressed and nothing is drawn
Rerun ==
    /\ pc = "done"
    /\ pc' = "idle"
    /\ mm_per_m_use' = NoRat
    /\ site_w_mm' = NoRat
    /\ site_h_mm' = NoRat
    /\ site_x' = NoRat
    /\ site_y' = NoRat
    /\ title_scale' = 0
    /\ x_center' = 0
    /\ y_center' = 0
    /\ dx' = 0
    /\ dy' = 0
    /\ grid' = <<>>
    /\ row' = <<>>
    /\ requests' = <<>>
    /\ fetched' = <<>>
    /\ stitched' = <<>>
    /\ stitched_size' = <<0, 0>>
    /\ center_px' = <<0, 0>>
    /\ radius_px' = 0
    /\ key_status' = "none"
    /\ UNCHANGED inputVars

\* the script with the site dimension inputs in use (no location picked)
NextFit ==
    \/ \E up \in BOOLEAN : StepLength(up)
    \/ \E up \in BOOLEAN : StepWidth(up)
    \/ Generate
    \/ Rerun

SpecFit == Init /\ [][NextFit]_vars

\* the script with the key plan inputs in use (site dimensions at their defaults)
NextKey ==
    \/ \E v \in BufferValues : SetRadius(v)
    \/ \E z \in MinZoom..MaxZoom : SetZoom(z)
    \/ \E p \in PickSamples : PickLocation(p)
    \/ Generate
    \/ \E ok \in BOOLEAN : FetchTile(ok)
    \/ Stitch
    \/ Rerun

SpecKey == Init /\ [][NextKey]_vars

Next == NextFit \/ NextKey

Spec == Init /\ [][Next]_vars

----------------------------------------------------------------------------
(* Properties of the scale-fit block, checked under SpecFit *)

\* the site rectangle has been computed by this run of the handler
Drawn == pc # "idle"

\* the nominal 1:SCALE placement fits the usable area on both axes
NominalFitsBoth ==
    /\ RLeq(RMul(site_width_m, Rat(1000, SCALE)), usable_w)
    /\ RLeq(RMul(site_length_m, Rat(1000, SCALE)), usable_h)

\* the nominal placement overflows the usable area on exactly one axis
OverflowsOneAxis ==
    RLeq(RMul(site_width_m, Rat(1000, SCALE)), usable_w)
        # RLeq(RMul(site_length_m, Rat(1000, SCALE)), usable_h)

C2_ScaleChoice ==
    Drawn =>
        /\ (mm_per_m_use = Rat(1000, SCALE)) <=> NominalFitsBoth
        /\ ~NominalFitsBoth =>
              mm_per_m_use = RMin(RDiv(usable_w, site_width_m),
                                  RDiv(usable_h, site_length_m))

\* C2 witness: a drawn site whose nominal placement overflows on one axis only
C2_OneAxisOverflowDrawn ==
    /\ pc = "done"
    /\ OverflowsOneAxis
    /\ RLt(mm_per_m_use, Rat(1000, SCALE))

\* gaps between the placed rectangle and the padded drawing region
GapLeft == RSub(site_x, RAdd(DRAWING_ORIGIN_X, inner_pad))
GapRight ==
    RSub(RAdd(RAdd(DRAWING_ORIGIN_X, inner_pad), usable_w), RAdd(site_x, site_w_mm))
GapBottom == RSub(site_y, RAdd(DRAWING_ORIGIN_Y, inner_pad))
GapTop ==
    RSub(RAdd(RAdd(DRAWING_ORIGIN_Y, inner_pad), usable_h), RAdd(site_y, site_h_mm))

C4_AspectPreserved ==
    Drawn => RMul(site_w_mm, site_length_m) = RMul(site_h_mm, site_width_m)

\* C4 witness: a drawn non-square site that took the fallback branch
C4_FallbackNonSquareDrawn ==
    /\ pc = "done"
    /\ ~NominalFitsBoth
    /\ site_width_m # site_length_m
    /\ site_w_mm = usable_w

\* C11: the scale printed in the title block agrees with the scale the site
\* rectangle is drawn at: the text "SCALE : 1:N" has N = 1000 / mm_per_m_use,
\* also when the fallback branch shrank the drawing below the nominal scale.
C11_TitleScaleAgrees ==
    Drawn => RMul(RInt(title_scale), mm_per_m_use) = RInt(1000)

----------------------------------------------------------------------------
(* Properties of make_keyplan_image, checked under SpecKey *)

\* make_keyplan_image returned its mosaic to the handler
Previewed == pc = "done" /\ key_status = "preview"

\* the image fetch_tile_image gave for the i-th request, or its replacement
Obtained(i) == IF fetched[i] THEN TileImage(requests[i]) ELSE Placeholder

\* pastes made at pixel position p
PastesAt(p) == {k \in 1..Len(stitched) : stitched[k].pos = p}

\* C6: make_keyplan_image requests exactly the (2r+1)^2 tile addresses
\* (x_center+dx, y_center+dy), dx, dy in [-r, r], in row-major order (y in
\* the outer loop, x in the inner loop, both ascending), and the image
\* obtained for row dy+r, column dx+r is pasted at pixel ((dx+r)*256,
\* (dy+r)*256): no tile is transposed, skipped or placed twice.
C6_RowMajorMosaic ==
    /\ \A i \in 1..Len(requests) :
          requests[i] = <<kp_zoom,
                          x_center + ((i - 1) % (2 * tiles_radius + 1)) - tiles_radius,
                          y_center + ((i - 1) \div (2 * tiles_radius + 1)) - tiles_radius>>
    /\ Previewed =>
          /\ Len(requests) = (2 * tiles_radius + 1) * (2 * tiles_radius + 1)
          /\ Len(stitched) = Len(requests)
          /\ \A ddy \in -tiles_radius..tiles_radius :
                \A ddx \in -tiles_radius..tiles_radius :
                   LET i == (ddy + tiles_radius) * (2 * tiles_radius + 1)
                               + (ddx + tiles_radius) + 1
                       p == <<(ddx + tiles_radius) * 256, (ddy + tiles_radius) * 256>>
                   IN  /\ Cardinality(PastesAt(p)) = 1
                       /\ \A k \in PastesAt(p) : stitched[k].img = Obtained(i)

\* C6 witness: a mosaic stitched from nine fetched tiles
C6_AllTilesStitched ==
    /\ Previewed
    /\ Len(stitched) = 9
    /\ \A i \in 1..Len(fetched) : fetched[i]

\* the picked point is a valid GeoPoint strictly between the poles
InMercatorRange ==
    /\ picked_latlon # None
    /\ -90 < picked_latlon[1] /\ picked_latlon[1] < 90
    /\ -180 <= picked_latlon[2] /\ picked_latlon[2] <= 180

\* x_center and y_center hold the centre tile of this run
CentreComputed == pc \in {"fetch", "stitch"} \/ Previewed

Clamp(v, lo, hi) == IF v < lo THEN lo ELSE IF v > hi THEN hi ELSE v

\* C7: for latitude in (-90, 90), longitude in [-180, 180] and a supported
\* zoom, the centre tile address is the floor of the fractional tile
\* coordinate clamped to [0, 2^zoom - 1], and every tile address passed to
\* fetch_tile_image has x and y in [0, 2^zoom), also on the edge of the grid.
C7_TilesInGrid ==
    InMercatorRange =>
        /\ CentreComputed =>
              LET t == latlon_to_tile_xy(picked_latlon[1], picked_latlon[2], kp_zoom)
              IN  /\ x_center = Clamp(Floor(t.xtile), 0, 2 ^ kp_zoom - 1)
                  /\ y_center = Clamp(Floor(t.ytile), 0, 2 ^ kp_zoom - 1)
        /\ \A i \in 1..Len(requests) :
              /\ 0 <= requests[i][2] /\ requests[i][2] < 2 ^ kp_zoom
              /\ 0 <= requests[i][3] /\ requests[i][3] < 2 ^ kp_zoom

\* buffer_m / mpp of the run
RadiusQuotient == RDiv(RInt(kp_radius_m), mpp(picked_latlon[1], kp_zoom))

\* C8 as stated: the buffer circle radius in pixels equals
\* max(2, round(buffer_m / mpp)), the quotient rounded to the nearest integer.
C8_RadiusRounded ==
    Previewed => radius_px = Max(2, PyRound(RadiusQuotient))

\* C8 as amended: the buffer circle radius in pixels equals
\* max(2, int(buffer_m / mpp)), the quotient truncated to the integer below
\* it, for every buffer_m > 0 and every metres-per-pixel value mpp > 0.
C8_RadiusTruncated ==
    Previewed =>
        /\ radius_px >= 2
        /\ radius_px > 2 =>
              /\ RLeq(RInt(radius_px), RadiusQuotient)
              /\ RLt(RadiusQuotient, RInt(radius_px + 1))
        /\ radius_px = 2 => RLt(RadiusQuotient, RInt(3))

\* C8 witness: a circle whose quotient lies in the upper half of its pixel,
\* where rounding to nearest and truncation differ
C8_UpperHalfDrawn ==
    /\ Previewed
    /\ radius_px > 2
    /\ RLeq(RAdd(RInt(radius_px), Rat(1, 2)), RadiusQuotient)

\* C9: a latitude of 90.0 or -90.0 or beyond is rejected before any tile
\* coordinate is computed or any tile is requested; it never yields tile
\* indices, a mosaic or a radius.
C9_PolesRejected ==
    (picked_latlon # None /\ (picked_latlon[1] >= 90 \/ picked_latlon[1] <= -90)) =>
        /\ pc \notin {"fetch", "stitch"}
        /\ requests = <<>>
        /\ stitched = <<>>
        /\ radius_px = 0
        /\ key_status # "preview"

\* C10: tile fetching is best-effort without retry: each tile address is
\* requested at most once in a call, a failed request is replaced by the
\* placeholder in the same grid cell, and for every subset of failing
\* requests the call returns a mosaic of ((2r+1)*256) x ((2r+1)*256) pixels
\* with every cell filled; no fetch failure surfaces as an error.
C10_BestEffortFetch ==
    /\ \A i, j \in 1..Len(requests) : i # j => requests[i] # requests[j]
    /\ Len(fetched) = Len(requests)
    /\ key_status = "no preview" => requests = <<>>
    /\ (pc = "done" /\ requests # <<>>) => key_status = "preview"
    /\ (pc = "stitch" \/ Previewed) =>
          /\ Len(grid) = 2 * tiles_radius + 1
          /\ \A r \in 1..Len(grid) :
                /\ Len(grid[r]) = 2 * tiles_radius + 1
                /\ \A c \in 1..Len(grid[r]) :
                      LET i == (r - 1) * (2 * tiles_radius + 1) + c
                      IN  grid[r][c] = IF fetched[i] THEN TileImage(requests[i])
                                                   ELSE Placeholder
    /\ Previewed =>
          /\ stitched_size = <<(2 * tiles_radius + 1) * 256, (2 * tiles_radius + 1) * 256>>
          /\ \A r \in 0..(2 * tiles_radius) :
                \A c \in 0..(2 * tiles_radius) :
                   \E k \in 1..Len(stitched) :
                      /\ stitched[k].pos = <<c * 256, r * 256>>
                      /\ stitched[k].img.kind \in {"tile", "placeholder"}

\* C10 witness: a mosaic returned after some requests failed and some did not
C10_PartlyFailedStitched ==
    /\ Previewed
    /\ \E i \in 1..Len(fetched) : fetched[i]
    /\ \E i \in 1..Len(fetched) : ~fetched[i]

====
